---- MODULE Spec2Model ----
(***************************************************************************)
(* Model of src/app.py: the Flask-User book catalog.                       *)
(*                                                                         *)
(* The relational store is the two tables `category` and `book` (sets of   *)
(* rows) plus the `users` table with the roles attached to each user.      *)
(* The store is SQLite with the settings of ConfigClass: integer primary   *)
(* keys are rowid aliases (a new row gets max(id)+1, or 1 in an empty      *)
(* table) and foreign keys are declared but not enforced (the code never   *)
(* issues PRAGMA foreign_keys=ON).                                         *)
(*                                                                         *)
(* Spec      every handler is one atomic step (requests one after another) *)
(* ConcSpec  two POST requests run concurrently, interleaved at each       *)
(*           statement that reaches the store                              *)
(* AuthSpec  the isAdmin template helper over bounded users tables         *)
(***************************************************************************)
EXTENDS Integers, Sequences, FiniteSets, TLC

VARIABLES category, book, users, last, req

vars == <<category, book, users, last, req>>

----------------------------------------------------------------------------
(* Bounds of the model *)

\* seedDB is explored only while the book table stays within MaxBooks rows
MaxBooks == 8
\* POST /addbook is explored only while the book table has fewer rows than this
MaxAddBooks == 5
\* a category is created only while the table stays within MaxCategories rows
MaxCategories == 5
\* POST /edit_book is explored for the book ids 1..MaxEditId, in the path and in
\* the form (an id that references no Book is one above the table's largest id)
MaxEditId == 2

----------------------------------------------------------------------------
(* Values submitted by the forms *)

\* what a visitor types into the form of /addbook, and into the form of
\* /edit_book: the two differ in every field; the isbn is the typed string of
\* decimal digits, one character per element
Submissions ==
    {[author |-> "Bram Stoker", title |-> "Dracula", isbn |-> <<"0", "7">>,
      description |-> "A vampire story"]}
Corrections ==
    {[author |-> "Ann Radcliffe", title |-> "The Italian", isbn |-> <<"1", "2">>,
      description |-> "A gothic romance"]}
\* "Horror" is a category of the demo data, "Gothic" is not
CategoryFields == {"Horror", "Gothic"}
EditIds == 1..MaxEditId

FormOf(id, s, category_field) ==
    [id |-> id, author |-> s.author, title |-> s.title, isbn |-> s.isbn,
     description |-> s.description, category |-> category_field]

\* request.form of POST /edit_book (the form carries the book id)
Forms == {FormOf(id, s, c) : id \in EditIds, s \in Corrections, c \in CategoryFields}

\* request.form of POST /addbook (no id field)
AddForms == {FormOf(0, s, c) : s \in Submissions, c \in CategoryFields}

NoForm == [id |-> 0, author |-> "", title |-> "", isbn |-> <<>>,
           description |-> "", category |-> ""]

MemberEmail == "member@example.com"
AdminEmail == "luke.fernandez@gmail.com"
\* current_user of a request: the views are reached by logged-in visitors
Visitors == {MemberEmail, AdminEmail}

----------------------------------------------------------------------------
(* The store: rows, keys and queries *)

\* class Category: one row of table `category`
Category(id, description) == [id |-> id, description |-> description]

\* class Book: one row of table `book`
Book(id, author, title, isbn, description, category_id) ==
    [id |-> id, author |-> author, title |-> title, isbn |-> isbn,
     description |-> description, category_id |-> category_id]

\* class User with its roles relationship (through user_roles): the role names
User(email, roles) == [email |-> email, roles |-> roles]

\* An INTEGER PRIMARY KEY without AUTOINCREMENT: the largest id in use plus one
NextId(rows) ==
    IF rows = {} THEN 1
    ELSE (CHOOSE m \in {r.id : r \in rows} : \A r \in rows : r.id <= m) + 1

\* Query.first(): the first row of the scan (rowid order)
First(rows) == CHOOSE r \in rows : \A s \in rows : r.id <= s.id

DigitValue(c) ==
    CASE c = "0" -> 0 [] c = "1" -> 1 [] c = "2" -> 2 [] c = "3" -> 3
      [] c = "4" -> 4 [] c = "5" -> 5 [] c = "6" -> 6 [] c = "7" -> 7
      [] c = "8" -> 8 [] c = "9" -> 9

\* Column isbn is db.Integer: the store converts the submitted digit string to
\* the integer it denotes (leading zeros are not kept)
RECURSIVE IntegerColumn(_)
IntegerColumn(text) ==
    IF text = <<>> THEN 0
    ELSE IntegerColumn(SubSeq(text, 1, Len(text) - 1)) * 10 + DigitValue(text[Len(text)])

\* String(255) with the default BINARY collation compares by code point; the
\* descriptions of the model differ in their first character
CodePoint(description) ==
    CASE description = "Gothic" -> 71
      [] description = "Horror" -> 72
      [] description = "Sociology" -> 83
      [] OTHER -> 0

\* Category.query.filter_by(description=category_field)
CategoryByDescription(cats, category_field) ==
    {c \in cats : c.description = category_field}

\* Book.query.filter_by(id=book_id)
BookById(rows, book_id) == {b \in rows : b.id = book_id}

\* db.session.query(Category).order_by(Category.description); rows with equal
\* descriptions are listed in id order
RECURSIVE OrderByDescription(_)
OrderByDescription(rows) ==
    IF rows = {} THEN <<>>
    ELSE LET r == CHOOSE r \in rows : \A s \in rows :
                      \/ CodePoint(r.description) < CodePoint(s.description)
                      \/ /\ CodePoint(r.description) = CodePoint(s.description)
                         /\ r.id <= s.id
         IN <<r>> \o OrderByDescription(rows \ {r})

\* db.session.query(Category, Book).join(Category): the inner join on
\* book.category_id = category.id
JoinCategoryBook(cats, rows) ==
    {p \in cats \X rows : p[2].category_id = p[1].id}

\* a listing that forgets the order_by: the pairs come in book id order
RECURSIVE OrderByBookId(_)
OrderByBookId(pairs) ==
    IF pairs = {} THEN <<>>
    ELSE LET p == CHOOSE p \in pairs : \A q \in pairs : p[2].id <= q[2].id
         IN <<p>> \o OrderByBookId(pairs \ {p})

\* order_by(Category.id); pairs of one category are listed in book id order
RECURSIVE OrderByCategoryId(_)
OrderByCategoryId(pairs) ==
    IF pairs = {} THEN <<>>
    ELSE LET p == CHOOSE p \in pairs : \A q \in pairs :
                      \/ p[1].id < q[1].id
                      \/ p[1].id = q[1].id /\ p[2].id <= q[2].id
         IN <<p>> \o OrderByCategoryId(pairs \ {p})

\* the query of view categories() (and of the GET branches of the two forms)
categories == OrderByDescription(category)

\* the query of view books()
books == OrderByCategoryId(JoinCategoryBook(category, book))

----------------------------------------------------------------------------
(* Access control of the views *)

\* @roles_required('Admin')
HasAdminRole(user) == \E u \in users : u.email = user /\ "Admin" \in u.roles

NoResult == [raised |-> FALSE, value |-> 0]

\* what the last request was and how it ended: "ok", "error" (the view raised)
\* or "denied" (the decorator turned the visitor away)
Response(op, status, path, form) ==
    [op |-> op, status |-> status, path |-> path, form |-> form,
     identity |-> "", result |-> NoResult]

----------------------------------------------------------------------------
(* The writes of the views *)

\* seedDB: the two Category objects added to the session
SeedCategories(cats) ==
    LET n == NextId(cats)
    IN cats \cup {Category(n, "Horror"), Category(n + 1, "Sociology")}

\* seedDB: the book rows; bulk_save_objects writes its three rows at once, the
\* row added to the session is written by the commit
SeedBooks(rows) ==
    LET n == NextId(rows)
    IN rows \cup
       {Book(n, "Henry James", "The Turn of the Screw", 12,
             "Another British horror story", 1),
        Book(n + 1, "Karl Marx", "The Communist Manifesto", 1234,
             "The iconic document of communism", 2),
        Book(n + 2, "Max Weber", "The Protestant Ethic and The Spirit of Capitalism",
             1235, "Protestantism catalyzed capitalism", 2),
        Book(n + 3, "Mary Shelly", "Frankenstein", 123,
             "A horror story written by a romantic", 1)}

\* an erase that leaves the book rows in place
DeleteBooksSkipped(rows) == rows

\* eraseDB: db.session.query(Book).delete()
DeleteBooks(rows) == {}

\* eraseDB: db.session.query(Category).delete()
DeleteCategories(cats) == {}

\* addbook / edit_book: category = Category(description=category_field);
\* db.session.add(category); db.session.commit()
InsertCategory(cats, category_field) ==
    cats \cup {Category(NextId(cats), category_field)}

\* a get-or-create that reads the id of the new Category object before the
\* commit has assigned it (the id is still unset, written 0)
GetOrCreateCategoryUnflushed(cats, category_field) ==
    LET found == CategoryByDescription(cats, category_field)
    IN IF found = {}
       THEN [table |-> InsertCategory(cats, category_field),
             row |-> Category(0, category_field)]
       ELSE [table |-> cats, row |-> First(found)]

\* addbook / edit_book: the category looked up by description and, when there is
\* none, created and committed: the category table afterwards and the Category
\* object the view goes on with
GetOrCreateCategory(cats, category_field) ==
    LET found == CategoryByDescription(cats, category_field)
    IN IF found = {}
       THEN [table |-> InsertCategory(cats, category_field),
             row |-> Category(NextId(cats), category_field)]
       ELSE [table |-> cats, row |-> First(found)]

\* an insert that passes author and title in each other's place
InsertBookSwapped(rows, form, category_id) ==
    rows \cup {Book(NextId(rows), form.title, form.author, IntegerColumn(form.isbn),
                    form.description, category_id)}

\* addbook: book = Book(...); db.session.add(book); db.session.commit()
InsertBook(rows, form, category_id) ==
    rows \cup {Book(NextId(rows), form.author, form.title, IntegerColumn(form.isbn),
                    form.description, category_id)}

\* edit_book: the assignments to the Book that was looked up, and the commit
UpdateBook(rows, b, form, category_id) ==
    (rows \ {b}) \cup {Book(b.id, form.author, form.title, IntegerColumn(form.isbn),
                            form.description, category_id)}

----------------------------------------------------------------------------
(* Initial state: create_app() on a new database file *)

\* create_app: 'member@example.com' without roles, 'luke.fernandez@gmail.com'
\* with the roles 'Admin' and 'Agent'
BootstrapUsers == {User(MemberEmail, {}), User(AdminEmail, {"Admin", "Agent"})}

Clients == {"r1", "r2"}

Idle == [pc |-> "idle", op |-> "", form |-> NoForm, category_id |-> 0,
         created |-> FALSE, status |-> ""]

NoRequest == Response("", "", 0, NoForm)

Init ==
    /\ category = {}
    /\ book = {}
    /\ users = BootstrapUsers
    /\ last = NoRequest
    /\ req = [c \in Clients |-> Idle]

----------------------------------------------------------------------------
(* The views, one request at a time *)

\* the bound on the category table: a request that would create a category is
\* explored only while the table has fewer than MaxCategories rows
RoomForCategory(category_field) ==
    \/ CategoryByDescription(category, category_field) # {}
    \/ Cardinality(category) < MaxCategories

\* GET /seedDB
seedDB(user) ==
    /\ Cardinality(book) + 4 <= MaxBooks
    /\ Cardinality(category) + 2 <= MaxCategories
    /\ IF HasAdminRole(user)
       THEN /\ category' = SeedCategories(category)
            /\ book' = SeedBooks(book)
            /\ last' = Response("seedDB", "ok", 0, NoForm)
       ELSE /\ last' = Response("seedDB", "denied", 0, NoForm)
            /\ UNCHANGED <<category, book>>
    /\ UNCHANGED <<users, req>>

\* GET /erase_DB: both deletes and one commit
eraseDB(user) ==
    /\ IF HasAdminRole(user)
       THEN /\ book' = DeleteBooks(book)
            /\ category' = DeleteCategories(category)
            /\ last' = Response("eraseDB", "ok", 0, NoForm)
       ELSE /\ last' = Response("eraseDB", "denied", 0, NoForm)
            /\ UNCHANGED <<category, book>>
    /\ UNCHANGED <<users, req>>

\* POST /addbook. commit_fails: the store refuses the insert of the book row
\* (the commit of line 213 raises); the category committed at line 206 stays
addbook(form, commit_fails) ==
    /\ Cardinality(book) < MaxAddBooks
    /\ RoomForCategory(form.category)
    /\ LET goc == GetOrCreateCategory(category, form.category)
       IN /\ category' = goc.table
          /\ IF commit_fails
             THEN /\ book' = book
                  /\ last' = Response("addbook", "error", 0, form)
             ELSE /\ book' = InsertBook(book, form, goc.row.id)
                  /\ last' = Response("addbook", "ok", 0, form)
    /\ UNCHANGED <<users, req>>

\* POST /edit_book/<bookID>. The book is looked up by the id field of the form;
\* when there is none, book is None and line 252 raises AttributeError.
\* commit_fails: the store refuses the update (the commit of line 258 raises)
edit_book(bookID, form, commit_fails) ==
    /\ RoomForCategory(form.category)
    /\ LET goc == GetOrCreateCategory(category, form.category)
           found == BookById(book, form.id)
       IN /\ category' = goc.table
          /\ IF found = {} \/ commit_fails
             THEN /\ book' = book
                  /\ last' = Response("edit_book", "error", bookID, form)
             ELSE /\ book' = UpdateBook(book, First(found), form, goc.row.id)
                  /\ last' = Response("edit_book", "ok", bookID, form)
    /\ UNCHANGED <<users, req>>

Next ==
    \/ \E user \in Visitors : seedDB(user)
    \/ \E user \in Visitors : eraseDB(user)
    \/ \E form \in AddForms, commit_fails \in BOOLEAN :
          addbook(form, commit_fails)
    \/ \E bookID \in EditIds, form \in Forms, commit_fails \in BOOLEAN :
          edit_book(bookID, form, commit_fails)

Spec == Init /\ [][Next]_vars

----------------------------------------------------------------------------
(* Two POST requests served concurrently.  A request reaches the store at the  *)
(* category lookup, at the commit of a new category and at the commit of the   *)
(* book; requests of other clients may run between these.                      *)

\* the catalog the two requests meet: new, or seeded once
ConcInit ==
    /\ \/ category = {} /\ book = {}
       \/ category = SeedCategories({}) /\ book = SeedBooks({})
    /\ users = BootstrapUsers
    /\ last = NoRequest
    /\ req = [c \in Clients |-> Idle]

\* addbook 194-199, edit_book 236-242: the form is read
Receive(c, op, form) ==
    /\ req[c].pc = "idle"
    /\ req' = [req EXCEPT ![c] = [Idle EXCEPT !.pc = "lookup", !.op = op, !.form = form]]
    /\ UNCHANGED <<category, book, users, last>>

\* addbook 201-202, edit_book 244-245: the lookup and the test for None
LookupCategory(c) ==
    /\ req[c].pc = "lookup"
    /\ LET found == CategoryByDescription(category, req[c].form.category)
       IN IF found = {}
          THEN req' = [req EXCEPT ![c].pc = "create"]
          ELSE req' = [req EXCEPT ![c].pc = "book", ![c].category_id = First(found).id]
    /\ UNCHANGED <<category, book, users, last>>

\* addbook 203-207, edit_book 246-249: the new category, committed
CreateCategory(c) ==
    /\ req[c].pc = "create"
    /\ Cardinality(category) < MaxCategories
    /\ category' = InsertCategory(category, req[c].form.category)
    /\ req' = [req EXCEPT ![c].pc = "book", ![c].category_id = NextId(category),
                          ![c].created = TRUE]
    /\ UNCHANGED <<book, users, last>>

\* addbook 211-214, edit_book 251-261: the book row, committed
WriteBook(c, commit_fails) ==
    /\ req[c].pc = "book"
    /\ LET r == req[c]
           found == BookById(book, r.form.id)
       IN IF commit_fails \/ (r.op = "edit_book" /\ found = {})
          THEN /\ book' = book
               /\ req' = [req EXCEPT ![c].pc = "done", ![c].status = "error"]
          ELSE /\ book' = IF r.op = "addbook"
                          THEN InsertBook(book, r.form, r.category_id)
                          ELSE UpdateBook(book, First(found), r.form, r.category_id)
               /\ req' = [req EXCEPT ![c].pc = "done", ![c].status = "ok"]
    /\ UNCHANGED <<category, users, last>>

ConcNext ==
    \/ \E c \in Clients, form \in AddForms : Receive(c, "addbook", form)
    \/ \E c \in Clients, form \in Forms : Receive(c, "edit_book", form)
    \/ \E c \in Clients : LookupCategory(c)
    \/ \E c \in Clients : CreateCategory(c)
    \/ \E c \in Clients, commit_fails \in BOOLEAN : WriteBook(c, commit_fails)

ConcSpec == ConcInit /\ [][ConcNext]_vars

----------------------------------------------------------------------------
(* The isAdmin helper of the templates *)

RoleNames == {"Admin", "Agent", "admin"}
Emails == {MemberEmail, AdminEmail}
Identities == {MemberEmail, "MEMBER@EXAMPLE.COM", AdminEmail, "nobody@example.com"}

\* collation NOCASE of column email: upper-case ASCII letters compare as lower-case
NoCase(email) ==
    IF email = "MEMBER@EXAMPLE.COM" THEN MemberEmail ELSE email

\* User.query.filter_by(email=user)
UserByEmail(rows, email) == {u \in rows : NoCase(u.email) = NoCase(email)}

\* isAdmin(user): user_object is None for an identity without a users row, and
\* user_object.roles then raises AttributeError; otherwise the loop leaves 1 in
\* returnValue when a role is named 'Admin', else 0
isAdmin(user) ==
    LET user_object == UserByEmail(users, user)
    IN IF user_object = {}
       THEN [raised |-> TRUE, value |-> 0]
       ELSE [raised |-> FALSE,
             value |-> IF \E u \in user_object : \E name \in u.roles : name = "Admin"
                       THEN 1 ELSE 0]

\* the users tables isAdmin is applied to: each account absent, or present with
\* any of the 0 to 3 roles attached
UsersTables ==
    {{User(e, roles[e]) : e \in present} :
        present \in SUBSET Emails, roles \in [Emails -> SUBSET RoleNames]}

AuthInit ==
    /\ users \in UsersTables
    /\ category = {}
    /\ book = {}
    /\ last = NoRequest
    /\ req = [c \in Clients |-> Idle]

\* a template calls isAdmin(identity)
IsAdminCall(identity) ==
    /\ last' = [op |-> "isAdmin",
                status |-> IF isAdmin(identity).raised THEN "error" ELSE "ok",
                path |-> 0, form |-> NoForm, identity |-> identity,
                result |-> isAdmin(identity)]
    /\ UNCHANGED <<category, book, users, req>>

AuthNext == \E identity \in Identities : IsAdminCall(identity)

AuthSpec == AuthInit /\ [][AuthNext]_vars

----------------------------------------------------------------------------
(* Properties *)

\* the integer a typed isbn denotes
Denotes(isbn) ==
    CASE isbn = <<"0", "7">> -> 7
      [] isbn = <<"1", "2">> -> 12

\* the category the demo data files a title under
Shelf(title) ==
    CASE title = "Frankenstein" -> "Horror"
      [] title = "The Turn of the Screw" -> "Horror"
      [] title = "The Communist Manifesto" -> "Sociology"
      [] title = "The Protestant Ethic and The Spirit of Capitalism" -> "Sociology"
      [] OTHER -> ""

\* C1: when two concurrent requests have finished with the same category
\* description, new to the store (one of them created it), exactly one Category
\* row has that description and both requests used the same Category id.
C1_GetOrCreateIdempotent ==
    \A a \in Clients, b \in Clients :
        ( /\ a # b
          /\ req[a].pc = "done" /\ req[b].pc = "done"
          /\ req[a].form.category = req[b].form.category
          /\ (req[a].created \/ req[b].created) )
        => /\ Cardinality(CategoryByDescription(category, req[a].form.category)) = 1
           /\ req[a].category_id = req[b].category_id

\* C2: a POST to edit_book whose book id references no Book ends in an error and
\* leaves the category table and the book table as they were.
C2_EditMissingBookChangesNothing ==
    [][ (last'.op = "edit_book" /\ BookById(book, last'.form.id) = {})
        => (last'.status = "error" /\ category' = category /\ book' = book) ]_vars

\* C3: isAdmin never raises, and returns 1 exactly when the identity resolves to
\* a User with a Role named "Admin" attached (0 otherwise, also for an identity
\* without a User row).
C3_IsAdminTotal ==
    last.op = "isAdmin"
    => /\ ~last.result.raised
       /\ last.result.value = 1
            <=> \E u \in users : NoCase(u.email) = NoCase(last.identity)
                                 /\ "Admin" \in u.roles

\* C4: in every state reached by seedDB, addbook, edit_book and eraseDB calls,
\* every Book row's category_id is set and is the id of a Category row.
C4_BookHasCategory ==
    \A b \in book : b.category_id # 0 /\ \E c \in category : c.id = b.category_id

\* C4 witness: seedDB has run on a catalog that was not empty
C4_Witness ==
    /\ last.op = "seedDB" /\ last.status = "ok"
    /\ Cardinality(book) > 4
    /\ Cardinality(category) > 2

\* C5: after addbook has completed, the listing of books() holds a pair whose Book
\* has the submitted author, title, isbn and description and whose Category has
\* the submitted description.
C5_AddedBookIsListed ==
    (last.op = "addbook" /\ last.status = "ok")
    => \E i \in 1..Len(books) :
          /\ books[i][2].author = last.form.author
          /\ books[i][2].title = last.form.title
          /\ books[i][2].isbn = Denotes(last.form.isbn)
          /\ books[i][2].description = last.form.description
          /\ books[i][1].description = last.form.category

\* C5 witness: a book was added to a seeded catalog
C5_Witness ==
    /\ last.op = "addbook" /\ last.status = "ok"
    /\ Cardinality(book) > 4

\* C6: an addbook call whose book insert fails leaves the store as it was before
\* the call (no Category row created by the call remains).
C6_FailedAddChangesNothing ==
    [][ (last'.op = "addbook" /\ last'.status = "error")
        => (category' = category /\ book' = book) ]_vars

\* C7: seedDB on an empty catalog: categories() lists exactly "Horror" then
\* "Sociology"; books() lists 4 pairs in ascending category id, "Frankenstein"
\* paired with "Horror".
C7_SeedOnce ==
    [][ (category = {} /\ book = {} /\ last'.op = "seedDB" /\ last'.status = "ok")
        => /\ [i \in 1..Len(categories') |-> categories'[i].description]
                = <<"Horror", "Sociology">>
           /\ Len(books') = 4
           /\ \A i \in 1..Len(books'), j \in 1..Len(books') :
                 i < j => books'[i][1].id <= books'[j][1].id
           /\ \E i \in 1..Len(books') :
                 /\ books'[i][2].title = "Frankenstein"
                 /\ books'[i][1].description = "Horror" ]_vars

\* C7 witness: the catalog right after one seedDB on an empty catalog
C7_Witness ==
    /\ last.op = "seedDB" /\ last.status = "ok"
    /\ Cardinality(book) = 4
    /\ Cardinality(category) = 2

\* C8: right after eraseDB, categories() and books() are empty, and the erase
\* leaves no Book whose Category it deleted.
C8_EraseEmpties ==
    [][ (last'.op = "eraseDB" /\ last'.status = "ok")
        => /\ categories' = <<>>
           /\ books' = <<>>
           /\ \A b \in book' :
                 (\E c \in category : c.id = b.category_id)
                 => \E c \in category' : c.id = b.category_id ]_vars

\* C8 witness: eraseDB has completed
C8_Witness ==
    /\ last.op = "eraseDB" /\ last.status = "ok"
    /\ book = {} /\ category = {}

\* C9: a successful POST /edit_book/<bookID> changes the Book whose id is bookID:
\* it takes the submitted fields and category, the number of Book rows is kept
\* and every other Book row is unchanged.
C9_EditChangesPathBook ==
    [][ (last'.op = "edit_book" /\ last'.status = "ok")
        => /\ \E b \in book' :
                 /\ b.id = last'.path
                 /\ b.author = last'.form.author
                 /\ b.title = last'.form.title
                 /\ b.isbn = Denotes(last'.form.isbn)
                 /\ b.description = last'.form.description
                 /\ \E c \in category' : /\ c.id = b.category_id
                                         /\ c.description = last'.form.category
           /\ Cardinality(book') = Cardinality(book)
           /\ \A b \in book : b.id # last'.path => b \in book' ]_vars

\* C10: the Book rows a seedDB call inserts reference a Category with the
\* description the demo data files them under ("Horror" or "Sociology").
C10_SeedBooksOnTheirShelf ==
    [][ (last'.op = "seedDB" /\ last'.status = "ok")
        => \A b \in book' \ book :
              \E c \in category' : /\ c.id = b.category_id
                                   /\ c.description = Shelf(b.title) ]_vars

====
